---- MODULE Spec2Model ----
(***************************************************************************)
(* self_deploy: classification of a scanned repository (tech_detector.py)  *)
(* and synthesis of the GitLab CI job graph (pipeline_generator.py).       *)
(*                                                                         *)
(* A run is: scan_project produced a raw descriptor (pc = "scanned"),      *)
(* detect_tech classifies it (pc = "detected", or "raised" when the call   *)
(* ends in an exception), generate_gitlab_ci builds the job graph          *)
(* (pc = "generated") and generate_dockerfile picks the Dockerfile recipe  *)
(* (pc = "done").  File contents are real strings; keyword matching is     *)
(* real substring search on them.                                          *)
(***************************************************************************)
EXTENDS Integers, Sequences, FiniteSets, TLC

VARIABLES descriptor, heap, result, pc, ci_context, pipeline, dockerfile

vars == <<descriptor, heap, result, pc, ci_context, pipeline, dockerfile>>

\* Python's None.
None == "<None>"

(***************************************************************************)
(* Bounds of the model.                                                    *)
(***************************************************************************)
\* largest number of package.json blobs in one signal bag
MaxBlobs == 2
\* largest number of observed directory names in one signal bag
MaxDirs == 1

(***************************************************************************)
(* Strings: str.lower, the `in` operator on strings, str.join, str.split.  *)
(***************************************************************************)
\* the lower-case letter of every upper-case letter
LowerOf ==
    [c \in {"A", "B", "C", "D", "E", "F", "G", "H", "I", "J", "K", "L", "M",
            "N", "O", "P", "Q", "R", "S", "T", "U", "V", "W", "X", "Y", "Z"} |->
       CASE c = "A" -> "a" [] c = "B" -> "b" [] c = "C" -> "c" [] c = "D" -> "d"
         [] c = "E" -> "e" [] c = "F" -> "f" [] c = "G" -> "g" [] c = "H" -> "h"
         [] c = "I" -> "i" [] c = "J" -> "j" [] c = "K" -> "k" [] c = "L" -> "l"
         [] c = "M" -> "m" [] c = "N" -> "n" [] c = "O" -> "o" [] c = "P" -> "p"
         [] c = "Q" -> "q" [] c = "R" -> "r" [] c = "S" -> "s" [] c = "T" -> "t"
         [] c = "U" -> "u" [] c = "V" -> "v" [] c = "W" -> "w" [] c = "X" -> "x"
         [] c = "Y" -> "y" [] c = "Z" -> "z"]

\* one character of str.lower()
LowerChar(c) == IF c \in DOMAIN LowerOf THEN LowerOf[c] ELSE c

RECURSIVE Lower(_)
\* content.lower(), character by character (by halves, to keep the recursion shallow)
Lower(s) ==
    IF Len(s) = 0 THEN ""
    ELSE IF Len(s) = 1 THEN LowerChar(s)
    ELSE Lower(SubSeq(s, 1, Len(s) \div 2)) \o Lower(SubSeq(s, Len(s) \div 2 + 1, Len(s)))

\* keyword in text
StrIn(keyword, text) ==
    \E i \in 1..(Len(text) - Len(keyword) + 1) :
        SubSeq(text, i, i + Len(keyword) - 1) = keyword

RECURSIVE Join(_, _)
\* sep.join(parts)
Join(sep, parts) ==
    IF Len(parts) = 0 THEN ""
    ELSE IF Len(parts) = 1 THEN parts[1]
    ELSE parts[1] \o sep \o Join(sep, Tail(parts))

\* s.split(sep, 1)[0] for a one-character sep
SplitFirst(s, sep) ==
    IF StrIn(sep, s)
    THEN LET i == CHOOSE j \in 1..Len(s) :
                     /\ SubSeq(s, j, j) = sep
                     /\ \A k \in 1..(j - 1) : SubSeq(s, k, k) # sep
         IN  SubSeq(s, 1, i - 1)
    ELSE s

\* the set of elements of a sequence
Range(seq) == {seq[i] : i \in 1..Len(seq)}

\* a sequence has no element twice
NoDuplicates(seq) == \A i, j \in 1..Len(seq) : seq[i] = seq[j] => i = j

(***************************************************************************)
(* JSON values as json.loads returns them.  A blob of package.json is a    *)
(* pair: its raw text and what json.loads makes of that text.              *)
(***************************************************************************)
JInvalid == [kind |-> "invalid"]

JNull == [kind |-> "null"]

JStr(s) == [kind |-> "str", str |-> s]

JNum(n) == [kind |-> "int", num |-> n]

JList(items) == [kind |-> "list", items |-> items]

JDict(members) == [kind |-> "dict", members |-> members]

EmptyDict == JDict(<<>>)

\* Python truthiness (what `x or {}` and `if x:` test)
Truthy(v) ==
    CASE v.kind = "null" -> FALSE
      [] v.kind = "str"  -> Len(v.str) > 0
      [] v.kind = "int"  -> v.num # 0
      [] v.kind = "list" -> Len(v.items) > 0
      [] v.kind = "dict" -> DOMAIN v.members # {}
      [] OTHER -> FALSE

\* isinstance(v, dict)
IsDict(v) == v.kind = "dict"

\* data.get(key) on a dict; None when the key is missing
DictGet(data, key) ==
    IF key \in DOMAIN data.members THEN data.members[key] ELSE JNull

\* x or {}
OrEmptyDict(v) == IF Truthy(v) THEN v ELSE EmptyDict

\* str(v) of a JSON scalar
PyStr(v) ==
    CASE v.kind = "str" -> v.str
      [] v.kind = "int" -> ToString(v.num)
      [] OTHER -> "<object>"

(***************************************************************************)
(* Signal bags.  scan_project records, per lower-cased marker file name,   *)
(* the relative paths found and the contents read; the bag also carries    *)
(* the observed directory names read by detect_tech and the graph builder. *)
(***************************************************************************)
\* the marker files of TARGET_FILES that detect_tech looks at
MarkerFiles ==
    {"pom.xml", "build.gradle", "build.gradle.kts", "go.mod", "package.json",
     "tsconfig.json", "pyproject.toml", "requirements.txt", "pipfile"}

JavaMarkers == {"pom.xml", "build.gradle", "build.gradle.kts"}

PythonMarkers == {"pyproject.toml", "requirements.txt", "pipfile"}

\* a blob that is not JSON at all: its text, the text lower-cased (computed
\* once, when the blob is made) and the failed parse
Text(t) == [text |-> t, lower |-> Lower(t), json |-> JInvalid]

\* a blob of package.json: the raw text, lower-cased, and its parse
Json(t, v) == [text |-> t, lower |-> Lower(t), json |-> v]

JavaBlobs ==
    { Text("<project><artifactId>demo</artifactId></project>"),
      Text("<parent>spring-boot-starter-parent</parent><dep>junit</dep><dep>junit-jupiter</dep>"),
      Text("implementation 'io.micronaut:micronaut-http' implementation 'io.quarkus:quarkus-core' testImplementation 'org.testng:testng'"),
      Text("id 'io.Quarkus' testImplementation 'io.kotest:kotest-runner' testImplementation 'JUnit:JUnit'") }

GoBlobs ==
    { Text("module x\n\ngo 1.22\n"),
      Text("module x\nrequire github.com/gin-gonic/gin v1.9\nrequire github.com/stretchr/testify v1.8\n"),
      Text("require github.com/labstack/echo/v4 v4\nrequire github.com/go-chi/chi v5\nrequire github.com/onsi/ginkgo v2\nrequire github.com/stretchr/testify v1\n"),
      Text("require github.com/gofiber/fiber v2\n") }

PythonBlobs ==
    { Text("Django==4.2\npytest\npytest-django\n"),
      Text("fastapi\nflask\nstarlette\nunittest2\nnose2\ntox\n"),
      Text("[tool.poetry]\nname = \"x\"\n[tool.pipenv]\n"),
      Text("[tool.pipenv]\n[packages]\nFlask = \"*\"\n"),
      Text("[tool.Poetry]\nrequires-python 3\\.11\n"),
      Text("[tool.poetry.dependencies]\npython = \"^3.11\"\n"),
      Text("[build-system]\nrequires = [\"setuptools\"]\n") }

PkgExpress ==
    Json("{\"dependencies\":{\"express\":\"^4\"}}",
         JDict("dependencies" :> JDict("express" :> JStr("^4"))))

PkgJestVitest ==
    Json("{\"devDependencies\":{\"jest\":\"^29\",\"vitest\":\"^1\",\"ts-jest\":\"^29\"},\"packageManager\":\"pnpm@8.6.0\"}",
         JDict("devDependencies" :> JDict("jest" :> JStr("^29") @@ "vitest" :> JStr("^1")
                                          @@ "ts-jest" :> JStr("^29"))
               @@ "packageManager" :> JStr("pnpm@8.6.0")))

PkgBroken == Json("{\"dependencies\":{\"react\":\"18\",\"mocha\":", JInvalid)

PkgArray == Json("[]", JList(<<>>))

PkgEnginesStr ==
    Json("{\"engines\":\"node >=18\"}", JDict("engines" :> JStr("node >=18")))

PkgDepsList ==
    Json("{\"dependencies\":[\"koa\"],\"engines\":{\"node\":\">=18\"}}",
         JDict("dependencies" :> JList(<<JStr("koa")>>)
               @@ "engines" :> JDict("node" :> JStr(">=18"))))

PkgPlain ==
    Json("{\"name\":\"app\",\"packageManager\":\"\",\"engines\":{}}",
         JDict("name" :> JStr("app") @@ "packageManager" :> JStr("")
               @@ "engines" :> EmptyDict))

PkgEscaped ==
    Json("{\"peerDependencies\":{\"\\u0056ue\":\"3\"}}",
         JDict("peerDependencies" :> JDict("Vue" :> JStr("3"))))

PkgYarn ==
    Json("{\"packageManager\":\"yarn@3.6.1\",\"optionalDependencies\":{\"@nestjs/core\":\"10\",\"next\":\"14\"},\"engines\":{\"node\":20}}",
         JDict("packageManager" :> JStr("yarn@3.6.1")
               @@ "optionalDependencies" :> JDict("@nestjs/core" :> JStr("10")
                                                  @@ "next" :> JStr("14"))
               @@ "engines" :> JDict("node" :> JNum(20))))

PkgBun == Json("{\"packageManager\":\"bun\"}", JDict("packageManager" :> JStr("bun")))

PackageBlobs ==
    {PkgExpress, PkgJestVitest, PkgBroken, PkgArray, PkgEnginesStr,
     PkgDepsList, PkgPlain, PkgEscaped, PkgYarn, PkgBun}

\* the blobs a file of the given name may carry
BlobsOf(name) ==
    CASE name \in JavaMarkers   -> JavaBlobs
      [] name = "go.mod"        -> GoBlobs
      [] name = "package.json"  -> PackageBlobs
      [] name \in PythonMarkers -> PythonBlobs
      [] OTHER                  -> {Text("{}")}

\* the content every file has in the bags that vary the set of files only
DefaultBlob(name) ==
    CASE name = "pom.xml"          -> Text("<parent>spring-boot-starter-parent</parent><dep>junit</dep><dep>junit-jupiter</dep>")
      [] name = "build.gradle"     -> Text("implementation 'io.micronaut:micronaut-http' implementation 'io.quarkus:quarkus-core' testImplementation 'org.testng:testng'")
      [] name = "build.gradle.kts" -> Text("id 'io.Quarkus' testImplementation 'io.kotest:kotest-runner' testImplementation 'JUnit:JUnit'")
      [] name = "go.mod"           -> Text("module x\n\ngo 1.22\n")
      [] name = "package.json"     -> PkgExpress
      [] name = "pyproject.toml"   -> Text("[tool.pipenv]\n[packages]\nFlask = \"*\"\n")
      [] name = "requirements.txt" -> Text("Django==4.2\npytest\npytest-django\n")
      [] name = "pipfile"          -> Text("fastapi\nflask\nstarlette\nunittest2\nnose2\ntox\n")
      [] OTHER                     -> Text("{}")

\* all sequences over S of length at most n
SeqsUpTo(S, n) == UNION {[1..k -> S] : k \in 0..n}

\* candidate directory names
DirNames == {"tests", "integration-tests", "e2e"}

\* the sets of observed directory names
DirSets == {D \in SUBSET DirNames : Cardinality(D) <= MaxDirs}

(***************************************************************************)
(* tech_detector.py                                                        *)
(***************************************************************************)
\* has_file: bool(detected_files.get(name))
has_file(detected_files, name) ==
    /\ name \in DOMAIN detected_files
    /\ Len(detected_files[name]) > 0

RECURSIVE get_contents(_, _)
\* get_contents(*names): the blobs of the named files, in the order of names
get_contents(file_contents, names) ==
    IF Len(names) = 0 THEN <<>>
    ELSE (IF Head(names) \in DOMAIN file_contents
          THEN file_contents[Head(names)] ELSE <<>>)
         \o get_contents(file_contents, Tail(names))

\* _contains_any: some content, lower-cased, contains some keyword
contains_any(contents, keywords) ==
    \E i \in 1..Len(contents) :
        LET lower == contents[i].lower
        IN  \E keyword \in keywords : StrIn(keyword, lower)

\* json.loads(blob); JInvalid stands for JSONDecodeError
JsonLoads(blob) == blob.json

\* add_test: append unless already seen
add_test(tests, name) ==
    IF name \in Range(tests) THEN tests ELSE Append(tests, name)

RECURSIVE add_tests_last_first(_, _)
\* add_tests with the checks run from the last to the first
add_tests_last_first(tests, checks) ==
    IF Len(checks) = 0 THEN tests
    ELSE add_tests_last_first(
             IF checks[Len(checks)][1] THEN add_test(tests, checks[Len(checks)][2]) ELSE tests,
             SubSeq(checks, 1, Len(checks) - 1))

RECURSIVE add_tests(_, _)
\* the `if <check>: add_test(name)` statements of one branch, in order
add_tests(tests, checks) ==
    IF Len(checks) = 0 THEN tests
    ELSE add_tests(IF Head(checks)[1] THEN add_test(tests, Head(checks)[2]) ELSE tests,
                   Tail(checks))

\* DetectLanguage with the package.json rule moved in front of the chain
DetectLanguageNodeFirst(r, detected_files) ==
    IF has_file(detected_files, "package.json")
    THEN [r EXCEPT !.language = IF has_file(detected_files, "tsconfig.json")
                                 THEN "ts" ELSE "js"]
    ELSE IF has_file(detected_files, "pom.xml")
    THEN [r EXCEPT !.language = "java", !.build_tool = "maven"]
    ELSE IF has_file(detected_files, "build.gradle") \/ has_file(detected_files, "build.gradle.kts")
    THEN [r EXCEPT !.language = IF has_file(detected_files, "build.gradle.kts")
                                 THEN "kotlin" ELSE "java",
                   !.build_tool = "gradle"]
    ELSE IF has_file(detected_files, "go.mod")
    THEN [r EXCEPT !.language = "go"]
    ELSE IF \/ has_file(detected_files, "pyproject.toml")
            \/ has_file(detected_files, "requirements.txt")
            \/ has_file(detected_files, "pipfile")
    THEN [r EXCEPT !.language = "python"]
    ELSE r

\* Language and build tool detection
DetectLanguage(r, detected_files) ==
    IF has_file(detected_files, "pom.xml")
    THEN [r EXCEPT !.language = "java", !.build_tool = "maven"]
    ELSE IF has_file(detected_files, "build.gradle") \/ has_file(detected_files, "build.gradle.kts")
    THEN [r EXCEPT !.language = IF has_file(detected_files, "build.gradle.kts")
                                 THEN "kotlin" ELSE "java",
                   !.build_tool = "gradle"]
    ELSE IF has_file(detected_files, "go.mod")
    THEN [r EXCEPT !.language = "go"]
    ELSE IF has_file(detected_files, "package.json")
    THEN [r EXCEPT !.language = IF has_file(detected_files, "tsconfig.json")
                                 THEN "ts" ELSE "js"]
    ELSE IF \/ has_file(detected_files, "pyproject.toml")
            \/ has_file(detected_files, "requirements.txt")
            \/ has_file(detected_files, "pipfile")
    THEN [r EXCEPT !.language = "python"]
    ELSE r

\* Package manager defaults
PackageManagerDefault(r, detected_files, file_contents) ==
    IF r.language \in {"java", "kotlin"}
    THEN [r EXCEPT !.package_manager = r.build_tool]
    ELSE IF r.language = "go"
    THEN [r EXCEPT !.package_manager = "go"]
    ELSE IF r.language \in {"js", "ts"}
    THEN [r EXCEPT !.package_manager = "npm"]
    ELSE IF r.language = "python"
    THEN IF has_file(detected_files, "pyproject.toml")
         THEN LET pyproject_text ==
                      Join("\n", [i \in 1..Len(get_contents(file_contents, <<"pyproject.toml">>)) |->
                                    get_contents(file_contents, <<"pyproject.toml">>)[i].text])
              IN  IF StrIn("poetry", pyproject_text)
                  THEN [r EXCEPT !.package_manager = "poetry"]
                  ELSE IF StrIn("pipenv", pyproject_text)
                  THEN [r EXCEPT !.package_manager = "pipenv"]
                  ELSE [r EXCEPT !.package_manager = "pip"]
         ELSE IF has_file(detected_files, "pipfile")
         THEN [r EXCEPT !.package_manager = "pipenv"]
         ELSE [r EXCEPT !.package_manager = "pip"]
    ELSE r

\* java / kotlin: framework and tests from the build files
JavaBranch(r, file_contents) ==
    LET java_contents ==
            get_contents(file_contents, <<"pom.xml", "build.gradle", "build.gradle.kts">>)
        framework ==
            IF contains_any(java_contents,
                            {"spring-boot", "springframework", "spring.core", "spring.context"})
            THEN "spring"
            ELSE IF contains_any(java_contents, {"micronaut"}) THEN "micronaut"
            ELSE IF contains_any(java_contents, {"quarkus"}) THEN "quarkus"
            ELSE r.framework
    IN  [r EXCEPT !.framework = framework,
                  !.tests = add_tests(r.tests,
                      << <<contains_any(java_contents, {"junit"}), "junit">>,
                         <<contains_any(java_contents, {"testng"}), "testng">>,
                         <<contains_any(java_contents, {"kotest"}), "kotest">> >>)]

\* go: framework and tests from go.mod (the version search after the
\* function's return statement never runs)
GoBranch(r, file_contents) ==
    LET go_contents == get_contents(file_contents, <<"go.mod">>)
        framework ==
            IF contains_any(go_contents, {"github.com/gin-gonic/gin", "github.com/gin-gonic"})
            THEN "gin"
            ELSE IF contains_any(go_contents,
                                 {"github.com/labstack/echo", "github.com/labstack/echo/v4"})
            THEN "echo"
            ELSE IF contains_any(go_contents, {"github.com/gofiber/fiber"}) THEN "fiber"
            ELSE IF contains_any(go_contents, {"github.com/go-chi/chi"}) THEN "chi"
            ELSE r.framework
    IN  [r EXCEPT !.framework = framework,
                  !.tests = add_tests(r.tests,
                      << <<contains_any(go_contents, {"github.com/stretchr/testify", "testify"}),
                           "testify">>,
                         <<contains_any(go_contents, {"github.com/onsi/ginkgo", "ginkgo"}),
                           "ginkgo">> >>)]

\* the sections of package.json that declare dependencies
DependencySections ==
    <<"dependencies", "devDependencies", "peerDependencies", "optionalDependencies">>

\* the lower-cased dependency names one parsed package.json declares
BlobDependencies(data) ==
    UNION { LET section_data == OrEmptyDict(DictGet(data, DependencySections[k]))
            IN  IF IsDict(section_data)
                THEN {Lower(name) : name \in DOMAIN section_data.members}
                ELSE {}
            : k \in 1..Len(DependencySections) }

\* _collect_package_dependencies: unparsable blobs are skipped; data.get on
\* a parsed value that is not a dict ends the call with AttributeError
collect_package_dependencies(package_json_blobs) ==
    [raised |-> \E i \in 1..Len(package_json_blobs) :
                    JsonLoads(package_json_blobs[i]).kind \notin {"invalid", "dict"},
     deps   |-> UNION { IF IsDict(JsonLoads(package_json_blobs[i]))
                        THEN BlobDependencies(JsonLoads(package_json_blobs[i]))
                        ELSE {}
                        : i \in 1..Len(package_json_blobs) }]

RECURSIVE PackageManagerFieldNoBreak(_, _)
\* the packageManager loop without its break: the last declaration wins
PackageManagerFieldNoBreak(package_manager, package_contents) ==
    IF Len(package_contents) = 0 THEN package_manager
    ELSE LET data == JsonLoads(Head(package_contents))
         IN  IF data.kind = "invalid"
             THEN PackageManagerFieldNoBreak(package_manager, Tail(package_contents))
             ELSE LET pkg_mgr == DictGet(data, "packageManager")
                  IN  PackageManagerFieldNoBreak(
                          IF pkg_mgr.kind = "str" /\ Truthy(pkg_mgr)
                          THEN SplitFirst(pkg_mgr.str, "@") ELSE package_manager,
                          Tail(package_contents))

RECURSIVE PackageManagerField(_, _)
\* the packageManager loop: the first blob with a non-empty string wins
PackageManagerField(package_manager, package_contents) ==
    IF Len(package_contents) = 0 THEN package_manager
    ELSE LET data == JsonLoads(Head(package_contents))
         IN  IF data.kind = "invalid"
             THEN PackageManagerField(package_manager, Tail(package_contents))
             ELSE LET pkg_mgr == DictGet(data, "packageManager")
                  IN  IF pkg_mgr.kind = "str" /\ Truthy(pkg_mgr)
                      THEN SplitFirst(pkg_mgr.str, "@")
                      ELSE PackageManagerField(package_manager, Tail(package_contents))

\* package_text_has: a key in a declared dependency name or in a raw content
package_text_has(deps, package_contents, keys) ==
    \/ \E dep \in deps : \E key \in keys : StrIn(key, dep)
    \/ contains_any(package_contents, keys)

RECURSIVE EnginesVersion(_)
\* the engines loop: the first truthy engines.node wins; engines.get on a
\* truthy value that is not a dict ends the call with AttributeError
EnginesVersion(package_contents) ==
    IF Len(package_contents) = 0 THEN [raised |-> FALSE, version |-> None]
    ELSE LET data == JsonLoads(Head(package_contents))
         IN  IF data.kind = "invalid" THEN EnginesVersion(Tail(package_contents))
             ELSE LET engines == OrEmptyDict(DictGet(data, "engines"))
                  IN  IF ~IsDict(engines) THEN [raised |-> TRUE, version |-> None]
                      ELSE IF Truthy(DictGet(engines, "node"))
                      THEN [raised |-> FALSE, version |-> PyStr(DictGet(engines, "node"))]
                      ELSE EnginesVersion(Tail(package_contents))

\* the js / ts framework chain with next tried before nestjs
NodeFrameworkNextFirst(deps, package_contents) ==
    IF package_text_has(deps, package_contents, {"next"}) THEN "next"
    ELSE IF package_text_has(deps, package_contents, {"nestjs"}) THEN "nestjs"
    ELSE IF package_text_has(deps, package_contents, {"express"}) THEN "express"
    ELSE IF package_text_has(deps, package_contents, {"fastify"}) THEN "fastify"
    ELSE IF package_text_has(deps, package_contents, {"koa"}) THEN "koa"
    ELSE IF package_text_has(deps, package_contents, {"react"}) THEN "react"
    ELSE IF package_text_has(deps, package_contents, {"vue"}) THEN "vue"
    ELSE IF package_text_has(deps, package_contents, {"svelte"}) THEN "svelte"
    ELSE None

\* the js / ts framework chain
NodeFramework(deps, package_contents) ==
    IF package_text_has(deps, package_contents, {"nestjs"}) THEN "nestjs"
    ELSE IF package_text_has(deps, package_contents, {"next"}) THEN "next"
    ELSE IF package_text_has(deps, package_contents, {"express"}) THEN "express"
    ELSE IF package_text_has(deps, package_contents, {"fastify"}) THEN "fastify"
    ELSE IF package_text_has(deps, package_contents, {"koa"}) THEN "koa"
    ELSE IF package_text_has(deps, package_contents, {"react"}) THEN "react"
    ELSE IF package_text_has(deps, package_contents, {"vue"}) THEN "vue"
    ELSE IF package_text_has(deps, package_contents, {"svelte"}) THEN "svelte"
    ELSE None

\* `not result.framework`
NoFramework(framework) == framework = None \/ framework = ""

\* js / ts: package manager, framework, tests and version from package.json;
\* the dependency collection raises before anything is assigned, the engines
\* loop after the framework and the tests were assigned
NodeBranch(r, file_contents) ==
    LET package_contents == get_contents(file_contents, <<"package.json">>)
        collected == collect_package_dependencies(package_contents)
        deps == collected.deps
        engines == EnginesVersion(package_contents)
    IN  IF collected.raised
        THEN [r EXCEPT !.raised = TRUE]
        ELSE [r EXCEPT
                !.raised = engines.raised,
                !.package_manager = PackageManagerField(r.package_manager, package_contents),
                !.framework = IF NoFramework(r.framework)
                              THEN (IF NodeFramework(deps, package_contents) # None
                                    THEN NodeFramework(deps, package_contents)
                                    ELSE r.framework)
                              ELSE r.framework,
                !.tests = add_tests(r.tests,
                    << <<package_text_has(deps, package_contents, {"jest"}), "jest">>,
                       <<package_text_has(deps, package_contents, {"mocha"}), "mocha">>,
                       <<package_text_has(deps, package_contents, {"vitest"}), "vitest">>,
                       <<package_text_has(deps, package_contents, {"ava"}), "ava">>,
                       <<package_text_has(deps, package_contents, {"tap"}), "tap">>,
                       <<package_text_has(deps, package_contents, {"cypress"}), "cypress">> >>),
                !.version = IF engines.version # None /\ engines.version # ""
                            THEN engines.version ELSE r.version]

\* one decimal digit
IsDigit(c) == StrIn(c, "0123456789")

\* re.search(r"python[^\\n]*([0-9]+\\.[0-9]+)", text, re.IGNORECASE).group(1),
\* None without a match.  In the raw pattern [^\\n] excludes the backslash
\* and the letter n, and \\. is a backslash followed by any character but a
\* newline; the greedy star leaves one digit to the group.
PythonVersion(text) ==
    LET low == Lower(text)
        Char(i) == SubSeq(text, i, i)
        Stops(i) == Char(i) \in {"\\", "n", "N"}
        RunEnd(p) == IF \E e \in (p + 6)..Len(text) : Stops(e)
                     THEN CHOOSE e \in (p + 6)..Len(text) :
                              Stops(e) /\ \A k \in (p + 6)..(e - 1) : ~Stops(k)
                     ELSE Len(text) + 1
        Matches(p) == /\ SubSeq(low, p, p + 5) = "python"
                      /\ LET e == RunEnd(p)
                         IN  /\ e + 2 <= Len(text)
                             /\ Char(e) = "\\"
                             /\ e - 1 >= p + 6
                             /\ IsDigit(Char(e - 1))
                             /\ Char(e + 1) # "\n"
                             /\ IsDigit(Char(e + 2))
        Starts == {p \in 1..(Len(text) - 5) : Matches(p)}
    IN  IF Starts = {} THEN None
        ELSE LET p == CHOOSE q \in Starts : \A o \in Starts : q <= o
                 e == RunEnd(p)
                 last == CHOOSE l \in (e + 2)..Len(text) :
                             /\ \A k \in (e + 2)..l : IsDigit(Char(k))
                             /\ (l = Len(text) \/ ~IsDigit(Char(l + 1)))
             IN  SubSeq(text, e - 1, last)

\* python: framework, tests and version from the python marker files
PythonBranch(r, file_contents) ==
    LET python_contents ==
            get_contents(file_contents, <<"pyproject.toml", "requirements.txt", "pipfile">>)
        framework ==
            IF contains_any(python_contents, {"django"}) THEN "django"
            ELSE IF contains_any(python_contents, {"fastapi"}) THEN "fastapi"
            ELSE IF contains_any(python_contents, {"flask"}) THEN "flask"
            ELSE IF contains_any(python_contents, {"starlette"}) THEN "starlette"
            ELSE r.framework
        py_version ==
            PythonVersion(Join(" ", [i \in 1..Len(python_contents) |-> python_contents[i].text]))
    IN  [r EXCEPT !.framework = framework,
                  !.tests = add_tests(r.tests,
                      << <<contains_any(python_contents, {"pytest"}), "pytest">>,
                         <<contains_any(python_contents, {"unittest", "unittest2"}), "unittest">>,
                         <<contains_any(python_contents, {"nose", "nose2"}), "nose">>,
                         <<contains_any(python_contents, {"tox"}), "tox">> >>),
                  !.version = IF py_version # None THEN py_version ELSE r.version]

\* the directory heuristics without the `if not result.tests` guard
DirectoryTestsUnguarded(r, detected_dirs) ==
    IF \E dir_name \in DOMAIN detected_dirs : StrIn("test", dir_name)
    THEN [r EXCEPT !.tests = add_test(r.tests, "tests-present")]
    ELSE r

\* Generic directory-based test heuristics
DirectoryTests(r, detected_dirs) ==
    IF Len(r.tests) = 0 /\ \E dir_name \in DOMAIN detected_dirs : StrIn("test", dir_name)
    THEN [r EXCEPT !.tests = add_test(r.tests, "tests-present")]
    ELSE r

\* metadata.get(key, {})
MetaGet(metadata, key) == IF key \in DOMAIN metadata THEN metadata[key] ELSE <<>>

\* Framework, tests and version detection of the resolved language
LanguageBranch(r, file_contents) ==
    IF r.language \in {"java", "kotlin"} THEN JavaBranch(r, file_contents)
    ELSE IF r.language = "go" THEN GoBranch(r, file_contents)
    ELSE IF r.language \in {"js", "ts"} THEN NodeBranch(r, file_contents)
    ELSE IF r.language = "python" THEN PythonBranch(r, file_contents)
    ELSE r

\* detect_tech with the detected language kept in a local instead of the result
detect_tech_language_not_stored(d, tests, metadata) ==
    LET detected_files == MetaGet(metadata, "detected_files")
        file_contents == MetaGet(metadata, "file_contents")
        detected_dirs == MetaGet(metadata, "detected_dirs")
        copied == [raised |-> FALSE, language |-> d.language, framework |-> d.framework,
                   build_tool |-> d.build_tool, package_manager |-> d.package_manager,
                   version |-> d.version, tests |-> tests]
        branched == LanguageBranch(
                        PackageManagerDefault(DetectLanguage(copied, detected_files),
                                              detected_files, file_contents),
                        file_contents)
        final == IF branched.raised THEN branched ELSE DirectoryTests(branched, detected_dirs)
    IN  [final EXCEPT !.language = d.language]

\* detect_tech on the copied descriptor: the fields of the result, its tests
\* list, and whether the call raised (then nothing is returned)
detect_tech(d, tests, metadata) ==
    LET detected_files == MetaGet(metadata, "detected_files")
        file_contents == MetaGet(metadata, "file_contents")
        detected_dirs == MetaGet(metadata, "detected_dirs")
        copied == [raised |-> FALSE, language |-> d.language, framework |-> d.framework,
                   build_tool |-> d.build_tool, package_manager |-> d.package_manager,
                   version |-> d.version, tests |-> tests]
        branched == LanguageBranch(
                        PackageManagerDefault(DetectLanguage(copied, detected_files),
                                              detected_files, file_contents),
                        file_contents)
    IN  IF branched.raised THEN branched ELSE DirectoryTests(branched, detected_dirs)

(***************************************************************************)
(* pipeline_generator.py                                                   *)
(***************************************************************************)
STAGES ==
    <<"prepare", "lint", "test", "sonar", "build", "package", "docker_build",
      "push", "deploy_staging", "deploy_prod">>

\* (x or "").lower()
LowerOrEmpty(x) == IF x = None THEN "" ELSE Lower(x)

\* select_gitlab_template
select_gitlab_template(d) ==
    LET language == LowerOrEmpty(d.language)
        build_tool == LowerOrEmpty(d.build_tool)
    IN  IF language \in {"java", "kotlin"}
        THEN (IF build_tool = "maven" THEN "gitlab/java-maven.yml.j2"
              ELSE "gitlab/java-gradle.yml.j2")
        ELSE IF language = "go" THEN "gitlab/go.yml.j2"
        ELSE IF language \in {"js", "ts"} THEN "gitlab/node.yml.j2"
        ELSE IF language = "python" THEN "gitlab/python.yml.j2"
        ELSE "gitlab/generic.yml.j2"

\* _base_image
base_image_of(d) ==
    LET language == LowerOrEmpty(d.language)
        build_tool == LowerOrEmpty(d.build_tool)
    IN  IF language \in {"java", "kotlin"}
        THEN (IF build_tool = "gradle" THEN "gradle:8-jdk17"
              ELSE "maven:3.9-eclipse-temurin-17")
        ELSE IF language = "go" THEN "golang:1.22"
        ELSE IF language \in {"js", "ts"} THEN "node:20"
        ELSE IF language = "python" THEN "python:3.12"
        ELSE "alpine:3.19"

\* _cache_paths
cache_paths_of(d) ==
    LET language == LowerOrEmpty(d.language)
        build_tool == LowerOrEmpty(d.build_tool)
    IN  (IF build_tool = "maven" THEN <<".m2/repository">> ELSE <<>>)
        \o (IF build_tool = "gradle" THEN <<".gradle">> ELSE <<>>)
        \o (IF language \in {"js", "ts"} THEN <<"node_modules", ".npm">> ELSE <<>>)
        \o (IF language = "python" THEN <<".cache/pip">> ELSE <<>>)
        \o (IF language = "go" THEN <<"go/pkg/mod">> ELSE <<>>)

\* _language_scripts
language_scripts(d) ==
    LET language == LowerOrEmpty(d.language)
        build_tool == LowerOrEmpty(d.build_tool)
    IN  IF language \in {"java", "kotlin"}
        THEN (IF build_tool = "gradle"
              THEN [prepare |-> <<"./gradlew --no-daemon --version">>,
                    lint    |-> <<"./gradlew --no-daemon check">>,
                    test    |-> <<"./gradlew --no-daemon test">>,
                    sonar   |-> <<"./gradlew --no-daemon sonarqube -Dsonar.host.url=$SONAR_HOST_URL -Dsonar.login=$SONAR_TOKEN">>,
                    build   |-> <<"./gradlew --no-daemon build -x test">>,
                    package |-> <<"./gradlew --no-daemon assemble -x test">>]
              ELSE [prepare |-> <<"mvn -B dependency:go-offline">>,
                    lint    |-> <<"mvn -B -DskipTests verify">>,
                    test    |-> <<"mvn -B test">>,
                    sonar   |-> <<"mvn -B sonar:sonar -Dsonar.host.url=$SONAR_HOST_URL -Dsonar.login=$SONAR_TOKEN">>,
                    build   |-> <<"mvn -B package -DskipTests">>,
                    package |-> <<"mvn -B package -DskipTests">>])
        ELSE IF language = "go"
        THEN [prepare |-> <<"go mod download">>,
              lint    |-> <<"go vet ./...">>,
              test    |-> <<"go test ./...">>,
              sonar   |-> <<"echo \"Run SonarQube scanner for Go\"">>,
              build   |-> <<"go build -o app ./...">>,
              package |-> <<"tar -czf app.tar.gz app">>]
        ELSE IF language \in {"js", "ts"}
        THEN [prepare |-> <<"npm ci">>,
              lint    |-> <<"npm run lint">>,
              test    |-> <<"npm test -- --ci --runInBand">>,
              sonar   |-> <<"echo \"Run SonarQube scanner for Node.js\"">>,
              build   |-> <<"npm run build">>,
              package |-> <<"tar -czf app.tgz dist">>]
        ELSE IF language = "python"
        THEN [prepare |-> <<"python -m pip install --upgrade pip", "pip install -r requirements.txt">>,
              lint    |-> <<"flake8 . || true">>,
              test    |-> <<"pytest">>,
              sonar   |-> <<"echo \"Run SonarQube scanner for Python\"">>,
              build   |-> <<"python -m pip install build && python -m build || true">>,
              package |-> <<"ls dist || true">>]
        ELSE [prepare |-> <<"echo \"Prepare stage placeholder\"">>,
              lint    |-> <<"echo \"Lint stage placeholder\"">>,
              test    |-> <<"echo \"Test stage placeholder\"">>,
              sonar   |-> <<"echo \"Sonar stage placeholder\"">>,
              build   |-> <<"echo \"Build stage placeholder\"">>,
              package |-> <<"echo \"Package stage placeholder\"">>]

\* _deploy_rules with the tag rule of production forgotten
deploy_rules_prod_main_only(target) ==
    IF target = "staging"
    THEN << [if |-> "$CI_COMMIT_BRANCH == \"develop\""] >>
    ELSE << [if |-> "$CI_COMMIT_BRANCH == \"main\""] >>

\* _deploy_rules
deploy_rules(target) ==
    IF target = "staging"
    THEN << [if |-> "$CI_COMMIT_BRANCH == \"develop\""] >>
    ELSE << [if |-> "$CI_COMMIT_BRANCH == \"main\""], [if |-> "$CI_COMMIT_TAG"] >>

\* ci_context.get(key, default)
CiGet(context, key, default) == IF key \in DOMAIN context THEN context[key] ELSE default

\* the artifacts with the jar globs of maven and gradle exchanged
ArtifactsJarGlobsExchanged(d) ==
    LET language == LowerOrEmpty(d.language)
        build_tool == LowerOrEmpty(d.build_tool)
    IN  IF language \in {"java", "kotlin"}
        THEN (IF build_tool # "gradle"
              THEN [build |-> <<"build/libs/*.jar">>, package |-> <<"build/libs/*.jar">>]
              ELSE [build |-> <<"target/*.jar">>, package |-> <<"target/*.jar">>])
        ELSE IF language = "go"
        THEN [build |-> <<"app">>, package |-> <<"app", "app.tar.gz">>]
        ELSE IF language \in {"js", "ts"}
        THEN [build |-> <<"dist/">>, package |-> <<"app.tgz", "dist/">>]
        ELSE IF language = "python"
        THEN [build |-> <<"dist/">>, package |-> <<"dist/">>]
        ELSE [build |-> <<>>, package |-> <<>>]

\* Artifacts per language/build tool: [build, package]
Artifacts(d) ==
    LET language == LowerOrEmpty(d.language)
        build_tool == LowerOrEmpty(d.build_tool)
    IN  IF language \in {"java", "kotlin"}
        THEN (IF build_tool = "maven"
              THEN [build |-> <<"target/*.jar">>, package |-> <<"target/*.jar">>]
              ELSE [build |-> <<"build/libs/*.jar">>, package |-> <<"build/libs/*.jar">>])
        ELSE IF language = "go"
        THEN [build |-> <<"app">>, package |-> <<"app", "app.tar.gz">>]
        ELSE IF language \in {"js", "ts"}
        THEN [build |-> <<"dist/">>, package |-> <<"app.tgz", "dist/">>]
        ELSE IF language = "python"
        THEN [build |-> <<"dist/">>, package |-> <<"dist/">>]
        ELSE [build |-> <<>>, package |-> <<>>]

\* has_integration looking for "integration" only
has_integration_without_e2e(metadata) ==
    \E name \in DOMAIN MetaGet(metadata, "detected_dirs") : StrIn("integration", name)

\* has_integration: an observed directory name mentions integration or e2e
has_integration(metadata) ==
    \E name \in DOMAIN MetaGet(metadata, "detected_dirs") :
        StrIn("integration", name) \/ StrIn("e2e", name)

\* the names of the jobs in the order the add_job calls insert them
JobOrder(integration) ==
    <<"prepare", "lint", "test">>
    \o (IF integration THEN <<"integration_test">> ELSE <<>>)
    \o <<"sonar", "build", "package", "docker_build", "push", "deploy_staging", "deploy_prod">>

\* the stage arguments with integration_test put in the stage of the job it needs
JobStageIntegrationWithLint(name) == IF name = "integration_test" THEN "lint" ELSE name

\* the stage argument of each add_job call
JobStage(name) == IF name = "integration_test" THEN "test" ELSE name

\* the needs arguments with sonar naming a job that does not exist
JobNeedsMisnamed(name) ==
    CASE name = "prepare"          -> <<>>
      [] name = "lint"             -> <<"prepare">>
      [] name = "test"             -> <<"lint">>
      [] name = "integration_test" -> <<"lint">>
      [] name = "sonar"            -> <<"tests">>
      [] name = "build"            -> <<"test">>
      [] name = "package"          -> <<"build">>
      [] name = "docker_build"     -> <<"package">>
      [] name = "push"             -> <<"docker_build">>
      [] name = "deploy_staging"   -> <<"push">>
      [] name = "deploy_prod"      -> <<"push">>

\* the needs argument of each add_job call
JobNeeds(name) ==
    CASE name = "prepare"          -> <<>>
      [] name = "lint"             -> <<"prepare">>
      [] name = "test"             -> <<"lint">>
      [] name = "integration_test" -> <<"lint">>
      [] name = "sonar"            -> <<"test">>
      [] name = "build"            -> <<"test">>
      [] name = "package"          -> <<"build">>
      [] name = "docker_build"     -> <<"package">>
      [] name = "push"             -> <<"docker_build">>
      [] name = "deploy_staging"   -> <<"push">>
      [] name = "deploy_prod"      -> <<"push">>

\* the script arguments with the test job handed the lint script
JobScriptTestRunsLint(name, scripts, docker_image_full) ==
    CASE name = "prepare"          -> scripts.prepare
      [] name = "lint"             -> scripts.lint
      [] name = "test"             -> scripts.lint
      [] name = "integration_test" -> <<"echo Running integration tests...">>
      [] name = "sonar"            -> scripts.sonar
      [] name = "build"            -> scripts.build
      [] name = "package"          -> scripts.package
      [] name = "docker_build"     ->
            <<"echo $CI_JOB_TOKEN | docker login -u $CI_REGISTRY_USER --password-stdin $CI_REGISTRY",
              "docker build -t " \o docker_image_full \o " .",
              "docker save " \o docker_image_full \o " -o image.tar">>
      [] name = "push"             ->
            <<"echo $CI_JOB_TOKEN | docker login -u $CI_REGISTRY_USER --password-stdin $CI_REGISTRY",
              "docker push " \o docker_image_full>>
      [] name = "deploy_staging"   -> <<"echo Deploying to staging...">>
      [] name = "deploy_prod"      -> <<"echo Deploying to production...">>

\* the script argument of each add_job call
JobScript(name, scripts, docker_image_full) ==
    CASE name = "prepare"          -> scripts.prepare
      [] name = "lint"             -> scripts.lint
      [] name = "test"             -> scripts.test
      [] name = "integration_test" -> <<"echo Running integration tests...">>
      [] name = "sonar"            -> scripts.sonar
      [] name = "build"            -> scripts.build
      [] name = "package"          -> scripts.package
      [] name = "docker_build"     ->
            <<"echo $CI_JOB_TOKEN | docker login -u $CI_REGISTRY_USER --password-stdin $CI_REGISTRY",
              "docker build -t " \o docker_image_full \o " .",
              "docker save " \o docker_image_full \o " -o image.tar">>
      [] name = "push"             ->
            <<"echo $CI_JOB_TOKEN | docker login -u $CI_REGISTRY_USER --password-stdin $CI_REGISTRY",
              "docker push " \o docker_image_full>>
      [] name = "deploy_staging"   -> <<"echo Deploying to staging...">>
      [] name = "deploy_prod"      -> <<"echo Deploying to production...">>

\* add_job: the record stored under jobs[name]
add_job(name, d, ci, caches) ==
    [stage       |-> JobStage(name),
     script      |-> JobScript(name, language_scripts(d), ci.docker_image_full),
     needs       |-> JobNeeds(name),
     artifacts   |-> CASE name = "build"        -> Artifacts(d).build
                       [] name = "package"      -> Artifacts(d).package
                       [] name = "docker_build" -> <<"image.tar">>
                       [] OTHER                 -> <<>>,
     variables   |-> CASE name = "sonar" ->
                            [SONAR_HOST_URL |-> ci.sonar_host, SONAR_TOKEN |-> ci.sonar_token]
                       [] name \in {"docker_build", "push"} -> [DOCKER_TLS_CERTDIR |-> ""]
                       [] OTHER -> <<>>,
     image       |-> IF name \in {"docker_build", "push"} THEN "docker:24" ELSE None,
     rules       |-> CASE name = "deploy_staging" -> deploy_rules("staging")
                       [] name = "deploy_prod"    -> deploy_rules("prod")
                       [] OTHER                   -> <<>>,
     services    |-> IF name \in {"docker_build", "push"} THEN <<"docker:24-dind">> ELSE <<>>,
     cache_paths |-> IF JobStage(name) \notin {"docker_build", "push", "deploy_staging", "deploy_prod"}
                     THEN caches ELSE <<>>]

\* the ci mapping with the image identity put together from the defaults
CiValuesIdentityFromDefaults(context) ==
    [sonar_host        |-> CiGet(context, "sonar_host", "http://sonarqube:9000"),
     sonar_token       |-> CiGet(context, "sonar_token", "$SONAR_TOKEN"),
     docker_image      |-> CiGet(context, "docker_image", "$CI_REGISTRY_IMAGE"),
     docker_tag        |-> CiGet(context, "docker_tag", "${CI_COMMIT_SHORT_SHA:-latest}"),
     docker_image_full |-> "$CI_REGISTRY_IMAGE" \o ":" \o "${CI_COMMIT_SHORT_SHA:-latest}",
     registry          |-> CiGet(context, "registry", "$CI_REGISTRY")]

\* the ci mapping of the rendering context
CiValues(context) ==
    [sonar_host        |-> CiGet(context, "sonar_host", "http://sonarqube:9000"),
     sonar_token       |-> CiGet(context, "sonar_token", "$SONAR_TOKEN"),
     docker_image      |-> CiGet(context, "docker_image", "$CI_REGISTRY_IMAGE"),
     docker_tag        |-> CiGet(context, "docker_tag", "${CI_COMMIT_SHORT_SHA:-latest}"),
     docker_image_full |-> CiGet(context, "docker_image", "$CI_REGISTRY_IMAGE") \o ":"
                           \o CiGet(context, "docker_tag", "${CI_COMMIT_SHORT_SHA:-latest}"),
     registry          |-> CiGet(context, "registry", "$CI_REGISTRY")]

\* job_defaults of the rendering context
JobDefaults(d, context) ==
    [image         |-> IF CiGet(context, "base_image", "") # ""
                       THEN context["base_image"] ELSE base_image_of(d),
     cache_paths   |-> cache_paths_of(d),
     before_script |-> CiGet(context, "before_script", <<>>)]

RECURSIVE Flatten(_)
\* the concatenation of a sequence of sequences
Flatten(seqs) == IF Len(seqs) = 0 THEN <<>> ELSE Head(seqs) \o Flatten(Tail(seqs))

\* the inline fallback walking the stage list instead of the job mapping
InlineLinesByStage(ci, order, jobs) ==
    <<"stages:">>
    \o [i \in 1..Len(STAGES) |-> "  - " \o STAGES[i]]
    \o <<"variables:",
         "  SONAR_HOST_URL: \"" \o ci.sonar_host \o "\"",
         "  SONAR_TOKEN: \"" \o ci.sonar_token \o "\"",
         "  DOCKER_IMAGE: \"" \o ci.docker_image \o "\"",
         "  DOCKER_TAG: \"" \o ci.docker_tag \o "\"",
         "  DOCKER_IMAGE_FULL: \"" \o ci.docker_image_full \o "\"">>
    \o Flatten([i \in 1..Len(STAGES) |->
           LET job == jobs[STAGES[i]]
           IN  <<"\n" \o STAGES[i] \o ":", "  stage: " \o job.stage>>
               \o (IF Len(job.needs) > 0
                   THEN <<"  needs:">> \o [k \in 1..Len(job.needs) |-> "    - " \o job.needs[k]]
                   ELSE <<>>)
               \o <<"  script:">>
               \o [k \in 1..Len(job.script) |-> "    - " \o job.script[k]]])

\* the lines of the inline fallback (content is their "\n".join)
InlineLines(ci, order, jobs) ==
    <<"stages:">>
    \o [i \in 1..Len(STAGES) |-> "  - " \o STAGES[i]]
    \o <<"variables:",
         "  SONAR_HOST_URL: \"" \o ci.sonar_host \o "\"",
         "  SONAR_TOKEN: \"" \o ci.sonar_token \o "\"",
         "  DOCKER_IMAGE: \"" \o ci.docker_image \o "\"",
         "  DOCKER_TAG: \"" \o ci.docker_tag \o "\"",
         "  DOCKER_IMAGE_FULL: \"" \o ci.docker_image_full \o "\"">>
    \o Flatten([i \in 1..Len(order) |->
           LET job == jobs[order[i]]
           IN  <<"\n" \o order[i] \o ":", "  stage: " \o job.stage>>
               \o (IF Len(job.needs) > 0
                   THEN <<"  needs:">> \o [k \in 1..Len(job.needs) |-> "    - " \o job.needs[k]]
                   ELSE <<>>)
               \o <<"  script:">>
               \o [k \in 1..Len(job.script) |-> "    - " \o job.script[k]]])

\* what the template backend returns for a template it finds; the templates
\* are not part of the sources, the text is identified by the template name
RenderedLines(template_path) == <<"# rendered from " \o template_path>>

\* generate_gitlab_ci; found: whether render_template finds the template
generate_gitlab_ci(d, metadata, context, found) ==
    LET ci == CiValues(context)
        order == JobOrder(has_integration(metadata))
        jobs == [name \in Range(order) |-> add_job(name, d, ci, cache_paths_of(d))]
    IN  [content       |-> IF found THEN RenderedLines(select_gitlab_template(d))
                           ELSE InlineLines(ci, order, jobs),
         template_used |-> IF found THEN select_gitlab_template(d) ELSE "generated-inline",
         stages        |-> STAGES,
         ci            |-> ci,
         jobs          |-> jobs,
         job_order     |-> order,
         job_defaults  |-> JobDefaults(d, context)]

(***************************************************************************)
(* dockerfile_generator.py: a recipe is its template name and the lines of *)
(* its text (content is their "\n".join).                                  *)
(***************************************************************************)
\* DockerfileRenderResult
DockerfileRenderResult(template_used, content) ==
    [template_used |-> template_used, content |-> content]

\* _java_or_kotlin
java_or_kotlin(d) ==
    IF LowerOrEmpty(d.build_tool) = "gradle"
    THEN DockerfileRenderResult("docker/java-gradle.Dockerfile.j2",
           <<"# syntax=docker/dockerfile:1",
             "FROM gradle:8-jdk17 AS build",
             "WORKDIR /app",
             "COPY . .",
             "RUN gradle build -x test",
             "",
             "FROM eclipse-temurin:17-jre AS runtime",
             "WORKDIR /app",
             "COPY --from=build /app/build/libs/*.jar app.jar",
             "EXPOSE 8080",
             "ENTRYPOINT [\"java\", \"-jar\", \"app.jar\"]">>)
    ELSE DockerfileRenderResult("docker/java-maven.Dockerfile.j2",
           <<"# syntax=docker/dockerfile:1",
             "FROM maven:3.9-eclipse-temurin-17 AS build",
             "WORKDIR /app",
             "COPY . .",
             "RUN mvn -B -DskipTests package",
             "",
             "FROM eclipse-temurin:17-jre AS runtime",
             "WORKDIR /app",
             "COPY --from=build /app/target/*.jar app.jar",
             "EXPOSE 8080",
             "ENTRYPOINT [\"java\", \"-jar\", \"app.jar\"]">>)

\* _go
go_recipe ==
    DockerfileRenderResult("docker/go.Dockerfile.j2",
      <<"# syntax=docker/dockerfile:1",
        "FROM golang:1.22 AS build",
        "WORKDIR /app",
        "COPY . .",
        "RUN go mod download",
        "RUN go build -o app .",
        "",
        "FROM alpine:3.19 AS runtime",
        "RUN apk add --no-cache ca-certificates",
        "WORKDIR /app",
        "COPY --from=build /app/app /usr/local/bin/app",
        "EXPOSE 8080",
        "ENTRYPOINT [\"/usr/local/bin/app\"]">>)

\* _node_backend
node_backend ==
    DockerfileRenderResult("docker/node-backend.Dockerfile.j2",
      <<"# syntax=docker/dockerfile:1",
        "FROM node:20 AS build",
        "WORKDIR /app",
        "COPY package*.json ./",
        "RUN npm ci",
        "COPY . .",
        "RUN npm run build",
        "",
        "FROM node:20-alpine AS runtime",
        "WORKDIR /app",
        "ENV NODE_ENV=production",
        "COPY --from=build /app/package*.json ./",
        "RUN npm ci --omit=dev",
        "COPY --from=build /app/dist ./dist",
        "EXPOSE 3000",
        "CMD [\"node\", \"dist/index.js\"]">>)

\* _node_frontend
node_frontend ==
    DockerfileRenderResult("docker/node-frontend.Dockerfile.j2",
      <<"# syntax=docker/dockerfile:1",
        "FROM node:20 AS build",
        "WORKDIR /app",
        "COPY package*.json ./",
        "RUN npm ci",
        "COPY . .",
        "RUN npm run build",
        "",
        "FROM nginx:alpine AS runtime",
        "COPY --from=build /app/build /usr/share/nginx/html",
        "EXPOSE 80",
        "CMD [\"nginx\", \"-g\", \"daemon off;\"]">>)

\* _python (the backslash-newline of the literal joins the two pip lines)
python_recipe ==
    DockerfileRenderResult("docker/python.Dockerfile.j2",
      <<"# syntax=docker/dockerfile:1",
        "FROM python:3.12-slim AS base",
        "WORKDIR /app",
        "ENV PYTHONDONTWRITEBYTECODE=1 PYTHONUNBUFFERED=1",
        "",
        "FROM python:3.12 AS build",
        "WORKDIR /app",
        "COPY requirements.txt* .  # optional constraints files",
        "RUN python -m pip install --upgrade pip &&             pip install --prefix=/install -r requirements.txt",
        "COPY . .",
        "",
        "FROM base AS runtime",
        "WORKDIR /app",
        "COPY --from=build /install /usr/local",
        "COPY . .",
        "EXPOSE 8000",
        "CMD [\"python\", \"app.py\"]">>)

\* the fallback of generate_dockerfile
generic_recipe ==
    DockerfileRenderResult("docker/generic",
      <<"# syntax=docker/dockerfile:1",
        "FROM alpine:3.19",
        "WORKDIR /app",
        "COPY . .",
        "CMD [\"sh\"]">>)

\* generate_dockerfile choosing the frontend recipe for a frontend framework
generate_dockerfile_frontend_by_framework(d) ==
    LET language == LowerOrEmpty(d.language)
    IN  IF language \in {"java", "kotlin"} THEN java_or_kotlin(d)
        ELSE IF language = "go" THEN go_recipe
        ELSE IF language \in {"js", "ts"}
        THEN (IF d.framework \in {"react", "vue", "angular", "nextjs"}
              THEN node_frontend ELSE node_backend)
        ELSE IF language = "python" THEN python_recipe
        ELSE generic_recipe

\* generate_dockerfile
generate_dockerfile(d) ==
    LET language == LowerOrEmpty(d.language)
    IN  IF language \in {"java", "kotlin"} THEN java_or_kotlin(d)
        ELSE IF language = "go" THEN go_recipe
        ELSE IF language \in {"js", "ts"} THEN node_backend
        ELSE IF language = "python" THEN python_recipe
        ELSE generic_recipe

(***************************************************************************)
(* The inputs: raw descriptors as scan_project hands them to detect_tech,  *)
(* and the CI override mappings of the configuration file.                 *)
(***************************************************************************)
\* a signal bag: the marker files found, the contents read, the directories
Bag(files, contents, dirs) == [files |-> files, contents |-> contents, dirs |-> dirs]

\* every set of marker files, each file with its usual content
FileBags ==
    { Bag(F, [name \in F |-> <<DefaultBlob(name)>>], D) :
        F \in SUBSET MarkerFiles, D \in DirSets }

\* the directories of the bags that vary file contents: none, or tests
ContentDirSets == {{}, {"tests"}}

\* one ecosystem's marker files, each unreadable or with one of its blobs
EcosystemBags(markers) ==
    UNION { { Bag(F, c, D) : c \in [F -> SeqsUpTo(BlobsOf(CHOOSE n \in markers : TRUE), 1)],
                             D \in ContentDirSets }
            : F \in (SUBSET markers) \ {{}} }

\* package.json found once or several times, with or without tsconfig.json,
\* with or without a tests directory
NodeBags ==
    { Bag({"package.json"} \cup T, [name \in {"package.json"} |-> blobs], D) :
        T \in SUBSET {"tsconfig.json"}, blobs \in SeqsUpTo(PackageBlobs, MaxBlobs),
        D \in ContentDirSets }

SignalBags ==
    FileBags \cup EcosystemBags(JavaMarkers) \cup EcosystemBags({"go.mod"})
    \cup EcosystemBags(PythonMarkers) \cup NodeBags

\* the metadata mapping of a scanned bag: a content key exists only for a
\* file that was read, the directory key only when directories were recorded
Metadata(bag) ==
    LET read == {name \in DOMAIN bag.contents : Len(bag.contents[name]) > 0}
        base == [detected_files |-> [name \in bag.files |-> <<name>>],
                 file_contents  |-> [name \in read |-> bag.contents[name]]]
    IN  IF bag.dirs = {} THEN base
        ELSE base @@ ("detected_dirs" :> [name \in bag.dirs |-> TRUE])

\* ProjectDescriptor: tests and additional_metadata hold references into the heap
ProjectDescriptor(language, framework, build_tool, tests, package_manager, version, metadata) ==
    [language |-> language, framework |-> framework, build_tool |-> build_tool,
     tests |-> tests, package_manager |-> package_manager, version |-> version,
     dockerfile_present |-> FALSE, has_k8s_manifests |-> FALSE, root_path |-> "/repo",
     additional_metadata |-> metadata]

\* the descriptor scan_project returns: every classification field unset
scan_project ==
    ProjectDescriptor(None, None, None, "scan.tests", None, None, "scan.metadata")

\* the CI override mappings a configuration file may carry
CiContexts ==
    { <<>>,
      ("docker_image" :> "registry.example.com/app") @@ ("docker_tag" :> "v1")
        @@ ("sonar_host" :> "https://sonar.example.com") @@ ("sonar_token" :> "$MY_TOKEN")
        @@ ("registry" :> "registry.example.com") @@ ("base_image" :> "eclipse-temurin:21")
        @@ ("before_script" :> <<"apt-get update">>),
      ("base_image" :> "") @@ ("docker_tag" :> "stable") }

(***************************************************************************)
(* The state machine.                                                      *)
(***************************************************************************)
\* replace(descriptor) without the copy: the result shares the caller's list
ReplaceTestsShared(d) == d.tests

\* replace(descriptor, tests=list(descriptor.tests)): a new list object
ReplaceTests(d) == "result.tests"

\* replace(descriptor, additional_metadata=deepcopy(...)): a new mapping object
ReplaceMetadata(d) == "result.metadata"

Init ==
    /\ \E bag \in SignalBags :
           heap = ("scan.tests" :> <<>>) @@ ("scan.metadata" :> Metadata(bag))
    /\ descriptor = scan_project
    /\ result = None
    /\ pc = "scanned"
    /\ ci_context = None
    /\ pipeline = None
    /\ dockerfile = None

\* descriptor = detect_tech(raw_descriptor)
DetectTech ==
    /\ pc = "scanned"
    /\ LET tests_ref == ReplaceTests(descriptor)
           metadata_ref == ReplaceMetadata(descriptor)
           copied == (tests_ref :> heap[descriptor.tests])
                     @@ (metadata_ref :> heap[descriptor.additional_metadata])
                     @@ heap
           r == detect_tech(descriptor, copied[tests_ref], copied[metadata_ref])
       IN  /\ heap' = [copied EXCEPT ![tests_ref] = r.tests]
           /\ IF r.raised
              THEN /\ pc' = "raised"
                   /\ result' = result
              ELSE /\ pc' = "detected"
                   /\ result' = [descriptor EXCEPT
                                    !.language = r.language,
                                    !.framework = r.framework,
                                    !.build_tool = r.build_tool,
                                    !.package_manager = r.package_manager,
                                    !.version = r.version,
                                    !.tests = tests_ref,
                                    !.additional_metadata = metadata_ref]
    /\ UNCHANGED <<descriptor, ci_context, pipeline, dockerfile>>

\* pipeline_result = generate_gitlab_ci(descriptor, ci_context)
GenerateGitlabCi ==
    /\ pc = "detected"
    /\ \E context \in CiContexts, found \in BOOLEAN :
           /\ ci_context' = context
           /\ pipeline' = generate_gitlab_ci(result, heap[result.additional_metadata],
                                             context, found)
    /\ pc' = "generated"
    /\ UNCHANGED <<descriptor, heap, result, dockerfile>>

\* dockerfile_result = generate_dockerfile(descriptor), skipped when the
\* repository already has a Dockerfile
GenerateDockerfile ==
    /\ pc = "generated"
    /\ ~result.dockerfile_present
    /\ dockerfile' = generate_dockerfile(result)
    /\ pc' = "done"
    /\ UNCHANGED <<descriptor, heap, result, ci_context, pipeline>>

Next == DetectTech \/ GenerateGitlabCi \/ GenerateDockerfile

Spec == Init /\ [][Next]_vars

(***************************************************************************)
(* detect_tech as a function of any descriptor: the caller may have set    *)
(* classification fields and tests before the call.                        *)
(***************************************************************************)
\* a few signal bags of every ecosystem, and the empty one
PresetBags ==
    { Bag(F, [name \in F |-> <<DefaultBlob(name)>>], D) :
        F \in {{}, {"pom.xml"}, {"build.gradle.kts"}, {"go.mod"}, {"requirements.txt"}},
        D \in DirSets }
    \cup { Bag({"package.json"}, [name \in {"package.json"} |-> <<PkgJestVitest, PkgBroken>>], D) :
             D \in DirSets }

\* test lists a caller may pass in
PresetTests == {<<>>, <<"jest">>, <<"custom", "junit">>}

InitAny ==
    /\ \E bag \in PresetBags, tests \in PresetTests :
           heap = ("scan.tests" :> tests) @@ ("scan.metadata" :> Metadata(bag))
    /\ \E language \in {None, "java", "rust", "Go"}, framework \in {None, "custom"},
          build_tool \in {None, "ant"}, preset \in {<<None, None>>, <<"conda", "1.0">>} :
           descriptor = ProjectDescriptor(language, framework, build_tool, "scan.tests",
                                          preset[1], preset[2], "scan.metadata")
    /\ result = None
    /\ pc = "scanned"
    /\ ci_context = None
    /\ pipeline = None
    /\ dockerfile = None

SpecAny == InitAny /\ [][Next]_vars

(***************************************************************************)
(* What the properties talk about.                                         *)
(***************************************************************************)
\* detect_tech has returned a descriptor
Returned == pc = "detected"

\* the signal bag of the scanned descriptor
ScannedMetadata == heap[descriptor.additional_metadata]

\* the marker files present in the signal bag
Files == {name \in DOMAIN MetaGet(ScannedMetadata, "detected_files") :
            Len(MetaGet(ScannedMetadata, "detected_files")[name]) > 0}

\* the contents of one file of the signal bag
ContentsOf(name) == get_contents(MetaGet(ScannedMetadata, "file_contents"), <<name>>)

\* the observed directory names of the signal bag
Dirs == DOMAIN MetaGet(ScannedMetadata, "detected_dirs")

\* the tests list of the returned descriptor
ResultTests == heap[result.tests]

\* the marker files that resolve a language
LanguageMarkers == MarkerFiles \ {"tsconfig.json"}

(***************************************************************************)
(* C1: language and build tool follow the first-match-wins chain pom.xml,  *)
(* build.gradle.kts, build.gradle, go.mod, package.json (ts with           *)
(* tsconfig.json, else js), python markers, else null: for every           *)
(* combination of marker files the earlier rule wins.                      *)
(***************************************************************************)
C1_PriorityChain ==
    Returned =>
        /\ "pom.xml" \in Files =>
               result.language = "java" /\ result.build_tool = "maven"
        /\ ("pom.xml" \notin Files /\ "build.gradle.kts" \in Files) =>
               result.language = "kotlin" /\ result.build_tool = "gradle"
        /\ ("pom.xml" \notin Files /\ "build.gradle.kts" \notin Files
            /\ "build.gradle" \in Files) =>
               result.language = "java" /\ result.build_tool = "gradle"
        /\ (Files \cap JavaMarkers = {} /\ "go.mod" \in Files) =>
               result.language = "go"
        /\ (Files \cap (JavaMarkers \cup {"go.mod"}) = {} /\ "package.json" \in Files) =>
               result.language = IF "tsconfig.json" \in Files THEN "ts" ELSE "js"
        /\ (Files \cap (JavaMarkers \cup {"go.mod", "package.json"}) = {}
            /\ Files \cap PythonMarkers # {}) =>
               result.language = "python"
        /\ Files \cap LanguageMarkers = {} => result.language = None

\* a bag with pom.xml and package.json was classified java/maven
C1_Witness ==
    /\ Returned
    /\ {"pom.xml", "package.json", "go.mod"} \subseteq Files
    /\ result.language = "java"
    /\ result.build_tool = "maven"

(***************************************************************************)
(* C2: detect_tech never fails, and without a recognized marker file every *)
(* classification field of the result is null; the empty bag gives no      *)
(* tests.                                                                  *)
(***************************************************************************)
C2_NeverFailsNullWithoutMarkers ==
    /\ pc # "raised"
    /\ (Returned /\ Files \cap LanguageMarkers = {}) =>
           /\ result.language = None
           /\ result.framework = None
           /\ result.build_tool = None
           /\ result.package_manager = None
           /\ result.version = None
           /\ (Files = {} /\ Dirs = {}) => ResultTests = <<>>

(***************************************************************************)
(* C3: a package.json blob that is not usable structured content           *)
(* (unparsable, top level not an object, a dependency or engines section   *)
(* not an object) never makes detect_tech raise.                           *)
(***************************************************************************)
\* the blob's parse is not an object with object-valued sections
Malformed(blob) ==
    \/ ~IsDict(blob.json)
    \/ \E section \in Range(DependencySections) \cup {"engines"} :
           /\ section \in DOMAIN blob.json.members
           /\ ~IsDict(blob.json.members[section])

C3_MalformedBlobNeverRaises ==
    (\E i \in 1..Len(ContentsOf("package.json")) : Malformed(ContentsOf("package.json")[i]))
        => pc # "raised"

C5_InputUnchanged ==
    [][/\ descriptor' = descriptor
       /\ heap'[descriptor.tests] = heap[descriptor.tests]
       /\ heap'[descriptor.additional_metadata] = heap[descriptor.additional_metadata]
       /\ pc' = "detected" =>
              /\ result'.tests # descriptor.tests
              /\ result'.additional_metadata # descriptor.additional_metadata]_vars

\* the result's list grew while the caller's list kept its one entry
C5_Witness ==
    /\ pc = "detected"
    /\ heap[descriptor.tests] = <<"jest">>
    /\ Len(ResultTests) > 1

(***************************************************************************)
(* C6: the tests of a returned descriptor hold no identifier twice and are *)
(* in the order the checks execute; a package.json mentioning jest and     *)
(* vitest yields each exactly once, however often the keywords occur.      *)
(***************************************************************************)
\* the test identifiers in the order their checks are written
CheckOrder ==
    <<"junit", "testng", "kotest", "testify", "ginkgo", "jest", "mocha", "vitest",
      "ava", "tap", "cypress", "pytest", "unittest", "nose", "tox", "tests-present">>

\* the position of an identifier in CheckOrder
CheckIndex(name) == CHOOSE i \in 1..Len(CheckOrder) : CheckOrder[i] = name

\* how often an identifier occurs in a list
Occurrences(name, tests) == Cardinality({i \in 1..Len(tests) : tests[i] = name})

\* some package.json blob mentions the keyword
PackageMentions(keyword) ==
    \E i \in 1..Len(ContentsOf("package.json")) :
        StrIn(keyword, ContentsOf("package.json")[i].lower)

C6_TestsOrderedNoDuplicates ==
    Returned =>
        /\ NoDuplicates(ResultTests)
        /\ Range(ResultTests) \subseteq Range(CheckOrder)
        /\ \A i, j \in 1..Len(ResultTests) :
               i < j => CheckIndex(ResultTests[i]) < CheckIndex(ResultTests[j])
        /\ (result.language \in {"js", "ts"} /\ PackageMentions("jest")
            /\ PackageMentions("vitest")) =>
               /\ Occurrences("jest", ResultTests) = 1
               /\ Occurrences("vitest", ResultTests) = 1

\* two package.json blobs that both mention jest and vitest: one entry each
C6_Witness ==
    /\ Returned
    /\ Len(ContentsOf("package.json")) = 2
    /\ \A i \in 1..2 : /\ StrIn("jest", ContentsOf("package.json")[i].lower)
                       /\ StrIn("vitest", ContentsOf("package.json")[i].lower)
    /\ ResultTests = <<"jest", "vitest">>

(***************************************************************************)
(* C7: "tests-present" is in the tests exactly when no typed test          *)
(* framework was detected and some observed directory name contains        *)
(* "test"; it occurs at most once and never next to a typed identifier.    *)
(***************************************************************************)
\* the typed identifiers found in the returned tests
TypedTests == Range(ResultTests) \ {"tests-present"}

C7_TestsPresentLastResort ==
    Returned =>
        /\ ("tests-present" \in Range(ResultTests))
               <=> (TypedTests = {} /\ \E name \in Dirs : StrIn("test", name))
        /\ Occurrences("tests-present", ResultTests) <= 1
        /\ "tests-present" \in Range(ResultTests) => TypedTests = {}

\* a js project without test keywords but with a tests directory
C7_Witness ==
    /\ Returned
    /\ result.language = "js"
    /\ "tests" \in Dirs
    /\ ResultTests = <<"tests-present">>

(***************************************************************************)
(* C8: package manager: java/kotlin the build tool; go "go"; python        *)
(* poetry/pipenv by the pyproject.toml content, else pip.                  *)
(* As claimed: js/ts "npm" unless a package.json declares packageManager   *)
(* of the form name@version, then the name; without pyproject.toml,        *)
(* pipenv only if Pipfile is the only python marker.                       *)
(* As amended: js/ts the text before the first "@" of the first non-empty  *)
(* packageManager string (so a bare name counts), else "npm"; without      *)
(* pyproject.toml, pipenv whenever Pipfile exists.                         *)
(***************************************************************************)
\* the packageManager string the k-th package.json blob declares, "" if none
DeclaredManager(k) ==
    LET data == ContentsOf("package.json")[k].json
    IN  IF /\ IsDict(data)
           /\ "packageManager" \in DOMAIN data.members
           /\ data.members["packageManager"].kind = "str"
        THEN data.members["packageManager"].str
        ELSE ""

\* the blobs that declare a package manager
Declaring == {k \in 1..Len(ContentsOf("package.json")) : DeclaredManager(k) # ""}

\* some pyproject.toml content contains the substring
PyprojectContains(word) ==
    \E i \in 1..Len(ContentsOf("pyproject.toml")) :
        StrIn(word, ContentsOf("pyproject.toml")[i].text)

\* the rules that the claim and its amendment share
PackageManagerRules ==
    /\ result.language \in {"java", "kotlin"} => result.package_manager = result.build_tool
    /\ result.language = "go" => result.package_manager = "go"
    /\ (result.language = "python" /\ "pyproject.toml" \in Files) =>
           result.package_manager =
               IF PyprojectContains("poetry") THEN "poetry"
               ELSE IF PyprojectContains("pipenv") THEN "pipenv" ELSE "pip"

C8_NameAtVersionAndPipfileAlone ==
    Returned =>
        /\ PackageManagerRules
        /\ result.language \in {"js", "ts"} =>
               LET versioned == {k \in Declaring : StrIn("@", DeclaredManager(k))}
               IN  IF versioned = {} THEN result.package_manager = "npm"
                   ELSE result.package_manager \in
                            {SplitFirst(DeclaredManager(k), "@") : k \in versioned}
        /\ (result.language = "python" /\ "pyproject.toml" \notin Files) =>
               result.package_manager =
                   IF Files \cap PythonMarkers = {"pipfile"} THEN "pipenv" ELSE "pip"

C8_PackageManager ==
    Returned =>
        /\ PackageManagerRules
        /\ result.language \in {"js", "ts"} =>
               IF Declaring = {} THEN result.package_manager = "npm"
               ELSE LET first == CHOOSE k \in Declaring : \A o \in Declaring : k <= o
                    IN  result.package_manager = SplitFirst(DeclaredManager(first), "@")
        /\ (result.language = "python" /\ "pyproject.toml" \notin Files) =>
               result.package_manager =
                   IF "pipfile" \in Files THEN "pipenv" ELSE "pip"

\* two package.json blobs declare pnpm@8.6.0 and yarn@3.6.1: the first wins
C8_Witness ==
    /\ Returned
    /\ result.language \in {"js", "ts"}
    /\ Cardinality(Declaring) = 2
    /\ DeclaredManager(1) = "pnpm@8.6.0"
    /\ result.package_manager = "pnpm"

(***************************************************************************)
(* C9: framework detection runs only when the language is known and gives  *)
(* the first match of a fixed precedence: java/kotlin spring, micronaut,   *)
(* quarkus; js/ts nestjs, next, express, fastify, koa, react, vue, svelte; *)
(* python django, fastapi, flask, starlette; null when nothing matches.    *)
(***************************************************************************)
\* some content of the named files, lower-cased, contains one of the keywords
Mentions(names, keywords) ==
    \E n \in names : \E i \in 1..Len(ContentsOf(n)) :
        \E keyword \in keywords : StrIn(keyword, ContentsOf(n)[i].lower)

\* some package.json declares a dependency whose name contains the keyword
DeclaresDependency(keyword) ==
    \E i \in 1..Len(ContentsOf("package.json")) :
        LET data == ContentsOf("package.json")[i].json
        IN  /\ IsDict(data)
            /\ \E section \in Range(DependencySections) \cap DOMAIN data.members :
                   /\ IsDict(data.members[section])
                   /\ \E name \in DOMAIN data.members[section].members :
                          StrIn(keyword, Lower(name))

\* the first framework of the list that has evidence, null if none has
FirstFramework(frameworks, Evidence(_)) ==
    IF \E i \in 1..Len(frameworks) : Evidence(frameworks[i])
    THEN frameworks[CHOOSE i \in 1..Len(frameworks) :
                        /\ Evidence(frameworks[i])
                        /\ \A k \in 1..(i - 1) : ~Evidence(frameworks[k])]
    ELSE None

JavaEvidence(framework) ==
    Mentions(JavaMarkers,
             IF framework = "spring"
             THEN {"spring-boot", "springframework", "spring.core", "spring.context"}
             ELSE {framework})

NodeEvidence(framework) ==
    DeclaresDependency(framework) \/ Mentions({"package.json"}, {framework})

PythonEvidence(framework) == Mentions(PythonMarkers, {framework})

C9_FrameworkPrecedence ==
    Returned =>
        /\ result.language \in {"java", "kotlin"} =>
               result.framework =
                   FirstFramework(<<"spring", "micronaut", "quarkus">>, JavaEvidence)
        /\ result.language \in {"js", "ts"} =>
               result.framework =
                   FirstFramework(<<"nestjs", "next", "express", "fastify", "koa",
                                    "react", "vue", "svelte">>, NodeEvidence)
        /\ result.language = "python" =>
               result.framework =
                   FirstFramework(<<"django", "fastapi", "flask", "starlette">>, PythonEvidence)
        /\ result.language = None => result.framework = None

\* react (in the first blob) and express both have evidence: express, the
\* earlier of the list, wins
C9_Witness ==
    /\ Returned
    /\ result.language \in {"js", "ts"}
    /\ Len(ContentsOf("package.json")) = 2
    /\ StrIn("react", ContentsOf("package.json")[1].lower)
    /\ NodeEvidence("express")
    /\ result.framework = "express"

(***************************************************************************)
(* C10: in every built graph each name in a job's needs is a job of the    *)
(* graph, and the ten unconditional jobs are all there.                    *)
(***************************************************************************)
C10_NeedsResolve ==
    pc = "generated" =>
        /\ \A name \in DOMAIN pipeline.jobs :
               Range(pipeline.jobs[name].needs) \subseteq DOMAIN pipeline.jobs
        /\ {"prepare", "lint", "test", "sonar", "build", "package", "docker_build",
            "push", "deploy_staging", "deploy_prod"} \subseteq DOMAIN pipeline.jobs

\* a graph with the conditional job, every job with its needs in the graph
C10_Witness ==
    /\ pc = "generated"
    /\ "integration_test" \in DOMAIN pipeline.jobs
    /\ pipeline.jobs["deploy_prod"].needs = <<"push">>
    /\ DOMAIN ci_context # {}

(***************************************************************************)
(* C11: the job graph has the fixed topology: prepare needs nothing, lint  *)
(* needs prepare, test needs lint, sonar and build need test, package      *)
(* needs build, docker_build needs package, push needs docker_build, both  *)
(* deploy jobs need push; each of these jobs is in the stage of its own    *)
(* name; deploy_staging is gated on the develop branch, deploy_prod on     *)
(* branch main or a tag.                                                   *)
(***************************************************************************)
\* generate_gitlab_ci has returned a graph
Built == pc \in {"generated", "done"}

\* the ten jobs every graph has
Unconditional ==
    {"prepare", "lint", "test", "sonar", "build", "package", "docker_build",
     "push", "deploy_staging", "deploy_prod"}

\* the edges the claim lists
ClaimedNeeds ==
    [prepare |-> <<>>, lint |-> <<"prepare">>, test |-> <<"lint">>,
     sonar |-> <<"test">>, build |-> <<"test">>, package |-> <<"build">>,
     docker_build |-> <<"package">>, push |-> <<"docker_build">>,
     deploy_staging |-> <<"push">>, deploy_prod |-> <<"push">>]

C11_FixedTopology ==
    Built =>
        /\ pipeline.stages = <<"prepare", "lint", "test", "sonar", "build", "package",
                               "docker_build", "push", "deploy_staging", "deploy_prod">>
        /\ \A name \in Unconditional :
               /\ name \in DOMAIN pipeline.jobs
               /\ pipeline.jobs[name].stage = name
               /\ pipeline.jobs[name].needs = ClaimedNeeds[name]
        /\ pipeline.jobs["deploy_staging"].rules
               = << [if |-> "$CI_COMMIT_BRANCH == \"develop\""] >>
        /\ pipeline.jobs["deploy_prod"].rules
               = << [if |-> "$CI_COMMIT_BRANCH == \"main\""], [if |-> "$CI_COMMIT_TAG"] >>

\* a graph built for a go project, both deploy jobs gated
C11_Witness ==
    /\ pc = "generated"
    /\ result.language = "go"
    /\ pipeline.jobs["deploy_prod"].needs = <<"push">>
    /\ Len(pipeline.jobs["deploy_prod"].rules) = 2
    /\ Len(pipeline.jobs["deploy_staging"].rules) = 1

(***************************************************************************)
(* C12: integration_test is in the graph exactly when an observed          *)
(* directory name of the descriptor's metadata contains "integration" or   *)
(* "e2e"; it is then in the test stage, needs exactly lint, and no job     *)
(* needs it; without it the graph has exactly the ten unconditional jobs.  *)
(***************************************************************************)
\* the observed directory names of the descriptor handed to generate_gitlab_ci
ResultDirs == DOMAIN MetaGet(heap[result.additional_metadata], "detected_dirs")

\* some observed directory name contains the word
DirMentions(word) == \E name \in ResultDirs : StrIn(word, name)

C12_IntegrationJob ==
    Built =>
        /\ ("integration_test" \in DOMAIN pipeline.jobs)
               <=> (DirMentions("integration") \/ DirMentions("e2e"))
        /\ "integration_test" \in DOMAIN pipeline.jobs =>
               /\ pipeline.jobs["integration_test"].stage = "test"
               /\ pipeline.jobs["test"].stage = "test"
               /\ pipeline.jobs["integration_test"].needs = <<"lint">>
               /\ \A name \in DOMAIN pipeline.jobs :
                      "integration_test" \notin Range(pipeline.jobs[name].needs)
               /\ DOMAIN pipeline.jobs = Unconditional \cup {"integration_test"}
        /\ "integration_test" \notin DOMAIN pipeline.jobs =>
               DOMAIN pipeline.jobs = Unconditional

\* a graph with the conditional job because of a directory named e2e
C12_Witness ==
    /\ pc = "generated"
    /\ "e2e" \in ResultDirs
    /\ ~DirMentions("integration")
    /\ pipeline.jobs["integration_test"].needs = <<"lint">>
    /\ Cardinality(DOMAIN pipeline.jobs) = 11

(***************************************************************************)
(* C13: for a descriptor with unresolved language the graph still has the  *)
(* ten stages and the ten unconditional jobs, the prepare, lint, test,     *)
(* sonar, build and package scripts are echo-only placeholders, the        *)
(* generic template is selected and alpine:3.19 is the default base image; *)
(* for a resolved language the six scripts are those of its (language,     *)
(* build tool), the go test script including `go test ./...`.              *)
(***************************************************************************)
\* the jobs whose script comes from the language's script set
ScriptedJobs == {"prepare", "lint", "test", "sonar", "build", "package"}

\* the line begins with the prefix
StartsWith(prefix, line) ==
    Len(line) >= Len(prefix) /\ SubSeq(line, 1, Len(prefix)) = prefix

\* every line of the script is an echo command
EchoOnly(script) ==
    /\ Len(script) > 0
    /\ \A i \in 1..Len(script) : StartsWith("echo ", script[i])

\* the line that runs the tests of a resolved stack
TestCommand ==
    CASE result.language \in {"java", "kotlin"} /\ result.build_tool = "maven" -> "mvn -B test"
      [] result.language \in {"java", "kotlin"} /\ result.build_tool = "gradle" ->
             "./gradlew --no-daemon test"
      [] result.language = "go" -> "go test ./..."
      [] result.language \in {"js", "ts"} -> "npm test -- --ci --runInBand"
      [] result.language = "python" -> "pytest"

C13_PlaceholderOrLanguageScripts ==
    Built =>
        /\ Len(pipeline.stages) = 10
        /\ Unconditional \subseteq DOMAIN pipeline.jobs
        /\ result.language = None =>
               /\ \A name \in ScriptedJobs : EchoOnly(pipeline.jobs[name].script)
               /\ pipeline.template_used \in {"gitlab/generic.yml.j2", "generated-inline"}
               /\ "base_image" \notin DOMAIN ci_context =>
                      pipeline.job_defaults.image = "alpine:3.19"
        /\ result.language # None =>
               /\ \A name \in ScriptedJobs :
                      pipeline.jobs[name].script = language_scripts(result)[name]
               /\ TestCommand \in Range(pipeline.jobs["test"].script)
               /\ ~EchoOnly(pipeline.jobs["test"].script)
               /\ pipeline.template_used # "gitlab/generic.yml.j2"

\* the placeholder pipeline of a repository without any marker file, rendered
\* from the generic template with the default image
C13_Witness ==
    /\ pc = "generated"
    /\ result.language = None
    /\ pipeline.template_used = "gitlab/generic.yml.j2"
    /\ pipeline.job_defaults.image = "alpine:3.19"
    /\ pipeline.jobs["test"].script = <<"echo \"Test stage placeholder\"">>

(***************************************************************************)
(* C14: generate_dockerfile returns one recipe for every descriptor and    *)
(* never fails: java/kotlin get the gradle or the maven two-stage recipe   *)
(* by build_tool, go the Go two-stage recipe, js/ts always the Node        *)
(* backend recipe whatever the framework, python the three-stage recipe,   *)
(* any other language value (null, unknown) the single-stage fallback.     *)
(***************************************************************************)
\* the number of build stages of a recipe: its FROM lines
StageCount(content) ==
    Cardinality({i \in 1..Len(content) : StartsWith("FROM ", content[i])})

\* the recipe the claim assigns to the descriptor: template and stage count
ClaimedRecipe ==
    LET language == LowerOrEmpty(result.language)
    IN  CASE language \in {"java", "kotlin"} /\ LowerOrEmpty(result.build_tool) = "gradle" ->
                 <<"docker/java-gradle.Dockerfile.j2", 2>>
          [] language \in {"java", "kotlin"} /\ LowerOrEmpty(result.build_tool) # "gradle" ->
                 <<"docker/java-maven.Dockerfile.j2", 2>>
          [] language = "go" -> <<"docker/go.Dockerfile.j2", 2>>
          [] language \in {"js", "ts"} -> <<"docker/node-backend.Dockerfile.j2", 2>>
          [] language = "python" -> <<"docker/python.Dockerfile.j2", 3>>
          [] OTHER -> <<"docker/generic", 1>>

C14_DockerfileTotal ==
    /\ pc = "generated" => ENABLED GenerateDockerfile
    /\ pc = "done" =>
           /\ DOMAIN dockerfile = {"template_used", "content"}
           /\ Len(dockerfile.content) > 0
           /\ dockerfile.template_used = ClaimedRecipe[1]
           /\ StageCount(dockerfile.content) = ClaimedRecipe[2]
           /\ dockerfile.template_used # "docker/node-frontend.Dockerfile.j2"

\* a react project gets the backend recipe
C14_Witness ==
    /\ pc = "done"
    /\ result.language = "js"
    /\ result.framework = "react"
    /\ dockerfile.template_used = "docker/node-backend.Dockerfile.j2"

\* an unknown language string gets the fallback
C14_WitnessUnknown ==
    /\ pc = "done"
    /\ result.language = "rust"
    /\ dockerfile.template_used = "docker/generic"

(***************************************************************************)
(* C15: when the template backend reports the selected template as not     *)
(* found, generate_gitlab_ci does not fail: it returns the inline fallback *)
(* (template_used = generated-inline) and the text lists the ten stage     *)
(* names and the name of every job of the graph, integration_test          *)
(* included when it was built.                                             *)
(***************************************************************************)
\* the call ended in the inline fallback
Inline == Built /\ pipeline.template_used = "generated-inline"

\* the text has the line
HasLine(line) == line \in Range(pipeline.content)

C15_FallbackListsStagesAndJobs ==
    /\ Built => pipeline.template_used \in {select_gitlab_template(result), "generated-inline"}
    /\ Inline =>
           /\ \A stage \in Unconditional : HasLine("  - " \o stage)
           /\ \A name \in DOMAIN pipeline.jobs : HasLine("\n" \o name \o ":")

\* the fallback text of a graph that has the conditional job
C15_Witness ==
    /\ Inline
    /\ "integration_test" \in DOMAIN pipeline.jobs
    /\ HasLine("\nintegration_test:")
    /\ HasLine("  - deploy_prod")

(***************************************************************************)
(* C16: the inline fallback text reproduces, for every job of the graph,   *)
(* its stage, its needs, its script lines and its artifact paths, next to  *)
(* the stage headers and the variables block; no non-empty needs, script   *)
(* or artifacts list of a job is left out of the text.                     *)
(***************************************************************************)
\* some line of the text contains the word
TextMentions(word) == \E i \in 1..Len(pipeline.content) : StrIn(word, pipeline.content[i])

\* every entry of the list is an item line of the text
ItemLines(list) == \A k \in 1..Len(list) : HasLine("    - " \o list[k])

C16_FallbackReproducesJobs ==
    Inline =>
        /\ HasLine("stages:") /\ HasLine("variables:")
        /\ \A variable \in {"SONAR_HOST_URL", "SONAR_TOKEN", "DOCKER_IMAGE", "DOCKER_TAG",
                              "DOCKER_IMAGE_FULL"} : TextMentions("  " \o variable \o ": ")
        /\ \A name \in DOMAIN pipeline.jobs :
               LET job == pipeline.jobs[name]
               IN  /\ HasLine("  stage: " \o job.stage)
                   /\ Len(job.needs) > 0 => HasLine("  needs:") /\ ItemLines(job.needs)
                   /\ Len(job.script) > 0 => HasLine("  script:") /\ ItemLines(job.script)
                   /\ Len(job.artifacts) > 0 =>
                          TextMentions("artifacts") /\ ItemLines(job.artifacts)

\* the part of C16 the fallback does keep: stage, needs and script of every job
C16_StageNeedsScriptKept ==
    Inline =>
        \A name \in DOMAIN pipeline.jobs :
            LET job == pipeline.jobs[name]
            IN  /\ HasLine("  stage: " \o job.stage)
                /\ ItemLines(job.needs)
                /\ ItemLines(job.script)

(***************************************************************************)
(* C17: every recognized CI override key (sonar_host, sonar_token,         *)
(* docker_image, docker_tag, registry, base_image, before_script) takes    *)
(* precedence over the computed default when supplied, and the stated      *)
(* default is used when it is absent; the image identity is always         *)
(* {docker_image}:{docker_tag} of the effective halves and the same        *)
(* identity is used in the docker_build and push scripts.                  *)
(***************************************************************************)
\* the value the graph uses for each override key
Effective ==
    [sonar_host    |-> pipeline.ci.sonar_host,
     sonar_token   |-> pipeline.ci.sonar_token,
     docker_image  |-> pipeline.ci.docker_image,
     docker_tag    |-> pipeline.ci.docker_tag,
     registry      |-> pipeline.ci.registry,
     base_image    |-> pipeline.job_defaults.image,
     before_script |-> pipeline.job_defaults.before_script]

\* the default of each override key
StatedDefault ==
    [sonar_host    |-> "http://sonarqube:9000",
     sonar_token   |-> "$SONAR_TOKEN",
     docker_image  |-> "$CI_REGISTRY_IMAGE",
     docker_tag    |-> "${CI_COMMIT_SHORT_SHA:-latest}",
     registry      |-> "$CI_REGISTRY",
     base_image    |-> base_image_of(result),
     before_script |-> <<>>]

\* the identity is the two effective halves, and the docker jobs use it
ImageIdentity ==
    LET full == pipeline.ci.docker_image \o ":" \o pipeline.ci.docker_tag
    IN  /\ pipeline.ci.docker_image_full = full
        /\ pipeline.jobs["docker_build"].script[2] = "docker build -t " \o full \o " ."
        /\ pipeline.jobs["docker_build"].script[3] = "docker save " \o full \o " -o image.tar"
        /\ pipeline.jobs["push"].script[2] = "docker push " \o full

\* the claim as stated: a supplied key always wins
C17_SuppliedKeyAlwaysWins ==
    Built =>
        /\ \A key \in DOMAIN StatedDefault :
               Effective[key] = IF key \in DOMAIN ci_context THEN ci_context[key]
                                ELSE StatedDefault[key]
        /\ ImageIdentity

\* C17 as amended: base_image wins only when it is supplied and not empty
C17_Overrides ==
    Built =>
        /\ \A key \in DOMAIN StatedDefault \ {"base_image"} :
               Effective[key] = IF key \in DOMAIN ci_context THEN ci_context[key]
                                ELSE StatedDefault[key]
        /\ Effective["base_image"] =
               IF "base_image" \in DOMAIN ci_context /\ ci_context["base_image"] # ""
               THEN ci_context["base_image"] ELSE StatedDefault["base_image"]
        /\ ImageIdentity

\* an overridden tag with the default image name, and an empty base_image
C17_Witness ==
    /\ pc = "generated"
    /\ "base_image" \in DOMAIN ci_context
    /\ ci_context["base_image"] = ""
    /\ result.language = "python"
    /\ pipeline.job_defaults.image = "python:3.12"
    /\ pipeline.ci.docker_image_full = "$CI_REGISTRY_IMAGE:stable"
    /\ pipeline.jobs["push"].script[2] = "docker push $CI_REGISTRY_IMAGE:stable"

(***************************************************************************)
(* C18: for a go or python project whose relevant file contents carry a    *)
(* language version token (go.mod containing `go 1.22`), detect_tech sets  *)
(* version to that token; without a token version stays null; extraction   *)
(* never raises.                                                           *)
(***************************************************************************)
\* some content of the named files contains the text
Carries(names, token) ==
    \E i \in 1..Len(get_contents(MetaGet(ScannedMetadata, "file_contents"), names)) :
        StrIn(token, get_contents(MetaGet(ScannedMetadata, "file_contents"), names)[i].text)

\* the go directive of go.mod
GoToken == Carries(<<"go.mod">>, "\ngo 1.22\n")

\* the python requirement of a pyproject.toml
PythonToken ==
    Carries(<<"pyproject.toml", "requirements.txt", "pipfile">>, "python = \"^3.11\"")

C18_VersionFromToken ==
    /\ pc = "raised" => result = None /\ "package.json" \in Files
    /\ Returned =>
           /\ result.language = "go" /\ GoToken => result.version = "1.22"
           /\ result.language = "python" /\ PythonToken => result.version = "3.11"
           /\ result.language = "go" /\ ~GoToken => result.version = None

\* what the code does: a go project never gets a version, a python project
\* only from text in which a backslash follows the digits after "python"
C18_GoVersionNeverSet ==
    Returned =>
        /\ result.language = "go" => result.version = None
        /\ result.language = "python" /\ result.version # None =>
               Carries(<<"pyproject.toml", "requirements.txt", "pipfile">>, "\\")

(***************************************************************************)
(* C20: in every built graph each job named in a job's needs sits in a     *)
(* stage strictly earlier in the ten-stage order than the job needing it;  *)
(* so the needs relation has no cycle and every job reaches prepare by     *)
(* following needs backwards.                                              *)
(***************************************************************************)
\* the position of the job's stage in the stage list (0: not a stage)
StageIndex(name) ==
    IF \E i \in 1..Len(pipeline.stages) : pipeline.stages[i] = pipeline.jobs[name].stage
    THEN CHOOSE i \in 1..Len(pipeline.stages) : pipeline.stages[i] = pipeline.jobs[name].stage
    ELSE 0

RECURSIVE NeededWithin(_, _)
\* the jobs reached from the job by following needs at most n times
NeededWithin(name, n) ==
    IF n = 0 THEN {}
    ELSE LET direct == Range(pipeline.jobs[name].needs) \cap DOMAIN pipeline.jobs
         IN  direct \cup UNION {NeededWithin(need, n - 1) : need \in direct}

\* every job the job depends on, directly or not
Ancestors(name) == NeededWithin(name, Cardinality(DOMAIN pipeline.jobs))

C20_NeedsFollowStageOrder ==
    Built =>
        \A name \in DOMAIN pipeline.jobs :
            /\ StageIndex(name) > 0
            /\ \A need \in Range(pipeline.jobs[name].needs) :
                   /\ need \in DOMAIN pipeline.jobs
                   /\ StageIndex(need) < StageIndex(name)
            /\ name \notin Ancestors(name)
            /\ name = "prepare" \/ "prepare" \in Ancestors(name)

\* the conditional job two stages after prepare, deploy_prod nine
C20_Witness ==
    /\ pc = "generated"
    /\ "integration_test" \in DOMAIN pipeline.jobs
    /\ Ancestors("integration_test") = {"lint", "prepare"}
    /\ StageIndex("integration_test") = 3
    /\ Cardinality(Ancestors("deploy_prod")) = 7

(***************************************************************************)
(* C21: for every descriptor detect_tech returns, the downstream           *)
(* selections agree on one (language, build tool) pair: the template of    *)
(* select_gitlab_template, the default base image, the script set, the     *)
(* build/package artifact globs and the Dockerfile recipe are all the      *)
(* maven variant or all the gradle variant for java/kotlin, and all of the *)
(* same ecosystem for go, js/ts, python and the generic case.              *)
(***************************************************************************)
\* the stack a classifier output stands for
DescriptorVariant ==
    CASE result.language \in {"java", "kotlin"} -> result.build_tool
      [] result.language = "go" -> "go"
      [] result.language \in {"js", "ts"} -> "node"
      [] result.language = "python" -> "python"
      [] OTHER -> "generic"

\* the stack each pipeline template is written for
TemplateVariant(template) ==
    CASE template = "gitlab/java-maven.yml.j2" -> "maven"
      [] template = "gitlab/java-gradle.yml.j2" -> "gradle"
      [] template = "gitlab/go.yml.j2" -> "go"
      [] template = "gitlab/node.yml.j2" -> "node"
      [] template = "gitlab/python.yml.j2" -> "python"
      [] template = "gitlab/generic.yml.j2" -> "generic"

\* the stack each default base image belongs to
ImageVariant(image) ==
    CASE image = "maven:3.9-eclipse-temurin-17" -> "maven"
      [] image = "gradle:8-jdk17" -> "gradle"
      [] image = "golang:1.22" -> "go"
      [] image = "node:20" -> "node"
      [] image = "python:3.12" -> "python"
      [] image = "alpine:3.19" -> "generic"

\* the stack whose tool the script runs
ScriptVariant(script) ==
    CASE StartsWith("mvn ", script[1]) -> "maven"
      [] StartsWith("./gradlew ", script[1]) -> "gradle"
      [] StartsWith("go ", script[1]) -> "go"
      [] StartsWith("npm ", script[1]) -> "node"
      [] StartsWith("pytest", script[1]) \/ StartsWith("python ", script[1])
         \/ StartsWith("flake8 ", script[1]) -> "python"
      [] StartsWith("echo ", script[1]) -> "generic"

\* the stack that produces the package artifacts
ArtifactVariant(paths) ==
    CASE paths = <<"target/*.jar">> -> "maven"
      [] paths = <<"build/libs/*.jar">> -> "gradle"
      [] paths = <<"app", "app.tar.gz">> -> "go"
      [] paths = <<"app.tgz", "dist/">> -> "node"
      [] paths = <<"dist/">> -> "python"
      [] paths = <<>> -> "generic"

\* the stack each Dockerfile recipe builds
RecipeVariant(template) ==
    CASE template = "docker/java-maven.Dockerfile.j2" -> "maven"
      [] template = "docker/java-gradle.Dockerfile.j2" -> "gradle"
      [] template = "docker/go.Dockerfile.j2" -> "go"
      [] template \in {"docker/node-backend.Dockerfile.j2",
                       "docker/node-frontend.Dockerfile.j2"} -> "node"
      [] template = "docker/python.Dockerfile.j2" -> "python"
      [] template = "docker/generic" -> "generic"

C21_SelectionsAgree ==
    pc = "done" =>
        /\ TemplateVariant(select_gitlab_template(result)) = DescriptorVariant
        /\ pipeline.template_used # "generated-inline" =>
               TemplateVariant(pipeline.template_used) = DescriptorVariant
        /\ ImageVariant(base_image_of(result)) = DescriptorVariant
        /\ "base_image" \notin DOMAIN ci_context =>
               ImageVariant(pipeline.job_defaults.image) = DescriptorVariant
        /\ \A name \in {"prepare", "lint", "test", "build"} :
               ScriptVariant(pipeline.jobs[name].script) = DescriptorVariant
        /\ result.language \in {"java", "kotlin"} =>
               \A name \in {"sonar", "package"} :
                   ScriptVariant(pipeline.jobs[name].script) = DescriptorVariant
        /\ ArtifactVariant(pipeline.jobs["package"].artifacts) = DescriptorVariant
        /\ pipeline.jobs["build"].artifacts # <<>> =>
               Range(pipeline.jobs["build"].artifacts)
                   \subseteq Range(pipeline.jobs["package"].artifacts)
        /\ RecipeVariant(dockerfile.template_used) = DescriptorVariant

\* a kotlin project: gradle template, gradle scripts, gradle jars, gradle recipe
C21_Witness ==
    /\ pc = "done"
    /\ result.language = "kotlin"
    /\ result.build_tool = "gradle"
    /\ pipeline.template_used = "gitlab/java-gradle.yml.j2"
    /\ pipeline.jobs["package"].artifacts = <<"build/libs/*.jar">>
    /\ dockerfile.template_used = "docker/java-gradle.Dockerfile.j2"

====
